---------------------------- MODULE Spec2Model ----------------------------
(***************************************************************************)
(* Model of pycallgraphix/wrapper.py: the register_method decorator and    *)
(* the SingletonForCallGraph registry it drives.                           *)
(*                                                                         *)
(* Every invocation of a decorated function is a frame on the call stack   *)
(* of its thread.  A frame walks through the statements of                 *)
(* function_wrapper_for_node_storage; its pc is the source line of the     *)
(* statement it executes next.  The registry methods take no lock, so each *)
(* registry call is a step of its own, and the two read-modify-write       *)
(* statements (+= on a dict item) are a read step and a write step.        *)
(***************************************************************************)
EXTENDS Integers, Sequences, FiniteSets, TLC

\* ---------------------------------------------------------------- bounds
MaxCalls == 4        \* invocations started in one behaviour
MaxDepth == 3        \* nesting depth of decorated calls in one thread
MaxElapsed == 2      \* largest elapsed time of one invocation (time units)
MaxK == 3            \* largest b passed to sum_recursive by the test
MaxCallsMT == 3      \* invocations started in one multi-threaded behaviour
MaxDepthMT == 2      \* nesting depth in one thread, multi-threaded
MaxCallsRender == 3  \* invocations started in one behaviour with charts
MaxCallsClear == 2   \* invocations started in one behaviour with clear()
MaxDepthClear == 1   \* nesting depth in one thread, with clear()
MaxCallsSingleton == 2  \* invocations started, with the singleton spelled out
MaxDepthSingleton == 1  \* nesting depth in one thread, likewise

\* ------------------------------------------------------------- universes
Threads == {1, 2}
SumRecursive == "sum_recursive"
PrintValue == "print_value"
Funcs == {SumRecursive, PrintValue, "g"}
FuncsMT == {SumRecursive, PrintValue}
None == "None"
NoTest == -1

VARIABLES
    my_list_all_functions,     \* SingletonForCallGraph.my_list_all_functions
    my_list_source_functions,  \* SingletonForCallGraph.my_list_source_functions
    my_info,                   \* SingletonForCallGraph.my_info
    frames,                    \* per thread: the stack of wrapper invocations
    test_b,                    \* argument b of test_store_calls' sum_recursive(a, b)
    invoked,                   \* history: wrapper invocations started, per name
    returned,                  \* history: wrapper invocations that returned, per name
    raised,                    \* history: invocations whose function raised, per name
    timed,                     \* history: edit_timer applications, per name
    recursed,                  \* history: names invoked while already in flight
    render_result,             \* outcome of the last make_graphviz_chart call
    cleared,                   \* history: the collections clear() was applied to
    lock,                      \* SingletonMetaForCallGraph._lock: 0 or its holder
    instances,                 \* SingletonMetaForCallGraph._instances[cls], 0 if unset
    constructed,               \* number of SingletonForCallGraph objects constructed
    spc,                       \* per thread: position inside SingletonMeta.__call__
    granted,                   \* per thread: SingletonForCallGraph() calls done for
                               \*   the statement it is executing
    got                        \* history, per thread: the instances returned to it

vars == <<my_list_all_functions, my_list_source_functions, my_info, frames,
          test_b, invoked, returned, raised, timed, recursed,
          render_result, cleared, lock, instances, constructed, spc, granted, got>>

singleton == <<lock, instances, constructed, spc, granted, got>>

registry == <<my_list_all_functions, my_list_source_functions, my_info>>
history == <<invoked, returned, raised, timed, recursed>>
\* what no step of the wrapper and no decorated call touches
env == <<test_b, render_result, cleared, singleton>>

\* ------------------------------------------------------------ MethodCall
\* @dataclass MethodCall: name and node; the generated __eq__ compares both.
MethodCall(name) == [name |-> name, node |-> None]

MethodCallEq(a, b) == a.name = b.name /\ a.node = b.node

\* ------------------------------------------------- registry (pure parts)
\* mutant of exist_entry: membership by object identity; the entry is always
\* a fresh MethodCall, so it is never found
exist_entry_by_identity(entry, my_list) ==
    \E i \in 1..Len(my_list) : MethodCallEq(my_list[i], entry) /\ FALSE

\* exist_entry: `entry in my_list`
exist_entry(entry, my_list) ==
    \E i \in 1..Len(my_list) : MethodCallEq(my_list[i], entry)

\* set_entry: my_list.append(entry)
set_entry(entry, my_list) == Append(my_list, entry)

\* index of the first element equal to entry (list.remove removes that one)
FirstIndex(entry, my_list) ==
    CHOOSE i \in 1..Len(my_list) :
        /\ MethodCallEq(my_list[i], entry)
        /\ \A j \in 1..(i-1) : ~MethodCallEq(my_list[j], entry)

\* delete_entry: my_list.remove(entry), for an entry that is present
delete_entry(entry, my_list) ==
    LET k == FirstIndex(entry, my_list)
    IN  [i \in 1..(Len(my_list)-1) |-> IF i < k THEN my_list[i] ELSE my_list[i+1]]

\* mutant of NewInfo: the first call is not counted
NewInfoCountZero(timer) == [timer |-> timer, callcounter |-> 0, source_functions |-> <<>>]

\* create, lines 146-151: the fresh info record
NewInfo(timer) == [timer |-> timer, callcounter |-> 1, source_functions |-> <<>>]

\* set_source_functions: the source list after the call
set_source_functions(entry, my_list, sources) ==
    IF Len(my_list) > 0 /\ my_list[Len(my_list)].name # entry.name
    THEN Append(sources, my_list[Len(my_list)])
    ELSE sources

\* --------------------------------------------------------------- frames
Frame(name, b) ==
    [name |-> name, pc |-> "L28", methodcall |-> MethodCall(name),
     tmp |-> 0, elapsed |-> 0, b |-> b, bpc |-> 0]

Top(t) == frames[t][Len(frames[t])]

SetTop(t, f) == [frames EXCEPT ![t] = [@ EXCEPT ![Len(@)] = f]]

Pop(t) == [frames EXCEPT ![t] = SubSeq(@, 1, Len(@) - 1)]

At(t, pc) == frames[t] # <<>> /\ Top(t).pc = pc

Goto(t, pc) == SetTop(t, [Top(t) EXCEPT !.pc = pc])

\* thread t has an invocation of name on its call stack
InFlight(t, name) == \E i \in 1..Len(frames[t]) : frames[t][i].name = name

\* no decorated call is running
Idle == \A t \in Threads : frames[t] = <<>>

Bump(h, name) == [h EXCEPT ![name] = @ + 1]

Started == invoked[SumRecursive] + invoked[PrintValue] + invoked["g"]

ZeroCount == [n \in Funcs |-> 0]

\* ------------------------------------------------------------------ Init
InitRegistry ==
    /\ my_list_all_functions = <<>>
    /\ my_list_source_functions = <<>>
    /\ my_info = <<>>
    /\ frames = [t \in Threads |-> <<>>]
    /\ invoked = ZeroCount
    /\ returned = ZeroCount
    /\ raised = ZeroCount
    /\ timed = ZeroCount
    /\ recursed = {}
    /\ render_result = "none"
    /\ cleared = {}
    /\ lock = 0
    /\ spc = [t \in Threads |-> "idle"]
    /\ granted = [t \in Threads |-> [depth |-> 0, pc |-> "none", n |-> 0]]
    /\ got = [t \in Threads |-> {}]

\* the registry object exists (it is made by the first SingletonForCallGraph())
Constructed == instances = 1 /\ constructed = 1

Init == InitRegistry /\ Constructed /\ test_b = NoTest

InitTest == InitRegistry /\ Constructed /\ test_b \in 0..MaxK

\* the process before the first SingletonForCallGraph()
InitSingleton == InitRegistry /\ instances = 0 /\ constructed = 0 /\ test_b = NoTest

\* ------------------------------------------------------- wrapper steps
\* lines 28-30: the exists check on my_list_all_functions
CheckRegistered(t) ==
    /\ At(t, "L28")
    /\ frames' = IF exist_entry(Top(t).methodcall, my_list_all_functions)
                 THEN Goto(t, "L31r") ELSE Goto(t, "L35")
    /\ UNCHANGED <<registry, env, history>>

\* line 31 / 138, read half of  my_info[name]["callcounter"] += 1
\* (a missing key is a KeyError that leaves the wrapper)
CallcounterRead(t) ==
    /\ At(t, "L31r")
    /\ frames' = IF Top(t).name \in DOMAIN my_info
                 THEN SetTop(t, [Top(t) EXCEPT !.pc = "L31w",
                                    !.tmp = my_info[Top(t).name].callcounter])
                 ELSE Pop(t)
    /\ UNCHANGED <<registry, env, history>>

\* mutant of CallcounterWrite: a later invocation pushes itself again, with
\* no check for an entry of the same name
CallcounterWritePushing(t) ==
    /\ At(t, "L31w")
    /\ IF Top(t).name \in DOMAIN my_info
       THEN /\ my_info' = [my_info EXCEPT ![Top(t).name].callcounter = Top(t).tmp + 1]
            /\ my_list_source_functions' =
                   set_entry(Top(t).methodcall, my_list_source_functions)
            /\ frames' = Goto(t, "L49")
       ELSE /\ my_info' = my_info
            /\ my_list_source_functions' = my_list_source_functions
            /\ frames' = Pop(t)
    /\ UNCHANGED <<my_list_all_functions, env, history>>

\* mutant of CallcounterWrite: the increment is lost
CallcounterWriteLost(t) ==
    /\ At(t, "L31w")
    /\ IF Top(t).name \in DOMAIN my_info
       THEN /\ my_info' = [my_info EXCEPT ![Top(t).name].callcounter = Top(t).tmp]
            /\ frames' = Goto(t, "L49")
       ELSE /\ my_info' = my_info
            /\ frames' = Pop(t)
    /\ UNCHANGED <<my_list_all_functions, my_list_source_functions, env, history>>

\* mutant of CallcounterWrite: every call records its caller as a source
CallcounterWriteUpdatingSources(t) ==
    /\ At(t, "L31w")
    /\ IF Top(t).name \in DOMAIN my_info
       THEN /\ my_info' = [my_info EXCEPT
                   ![Top(t).name].callcounter = Top(t).tmp + 1,
                   ![Top(t).name].source_functions =
                       set_source_functions(Top(t).methodcall, my_list_source_functions, @)]
            /\ frames' = Goto(t, "L49")
       ELSE /\ my_info' = my_info
            /\ frames' = Pop(t)
    /\ UNCHANGED <<my_list_all_functions, my_list_source_functions, env, history>>

\* line 31 / 138, write half
CallcounterWrite(t) ==
    /\ At(t, "L31w")
    /\ IF Top(t).name \in DOMAIN my_info
       THEN /\ my_info' = [my_info EXCEPT ![Top(t).name].callcounter = Top(t).tmp + 1]
            /\ frames' = Goto(t, "L49")
       ELSE /\ my_info' = my_info
            /\ frames' = Pop(t)
    /\ UNCHANGED <<my_list_all_functions, my_list_source_functions, env, history>>

\* lines 35 / 146-151: create() stores the fresh info record
CreateInfo(t) ==
    /\ At(t, "L35")
    /\ my_info' = (Top(t).name :> NewInfo(0)) @@ my_info
    /\ frames' = Goto(t, "L152")
    /\ UNCHANGED <<my_list_all_functions, my_list_source_functions, env, history>>

\* lines 152 / 154-159: create() calls set_source_functions
SetSourceFunctions(t) ==
    /\ At(t, "L152")
    /\ IF Top(t).name \in DOMAIN my_info
       THEN /\ my_info' = [my_info EXCEPT ![Top(t).name].source_functions =
                   set_source_functions(Top(t).methodcall, my_list_source_functions, @)]
            /\ frames' = Goto(t, "L40")
       ELSE /\ my_info' = my_info
            /\ frames' = Pop(t)
    /\ UNCHANGED <<my_list_all_functions, my_list_source_functions, env, history>>

\* mutant of AppendAllFunctions: the entry goes to the wrong list
AppendAllFunctionsWrongList(t) ==
    /\ At(t, "L40")
    /\ my_list_source_functions' = set_entry(Top(t).methodcall, my_list_source_functions)
    /\ frames' = Goto(t, "L43")
    /\ UNCHANGED <<my_list_all_functions, my_info, env, history>>

\* lines 40-42: set_entry into my_list_all_functions
AppendAllFunctions(t) ==
    /\ At(t, "L40")
    /\ my_list_all_functions' = set_entry(Top(t).methodcall, my_list_all_functions)
    /\ frames' = Goto(t, "L43")
    /\ UNCHANGED <<my_list_source_functions, my_info, env, history>>

\* mutant of AppendSourceFunctions: the push takes the lock and the wrapper
\* goes on to call func with the lock still held
AppendSourceFunctionsKeepingLock(t) ==
    /\ At(t, "L43")
    /\ my_list_source_functions' = set_entry(Top(t).methodcall, my_list_source_functions)
    /\ frames' = Goto(t, "L49")
    /\ lock' = t
    /\ UNCHANGED <<my_list_all_functions, my_info, test_b, render_result, cleared,
                   instances, constructed, spc, granted, got, history>>

\* lines 43-46: set_entry into my_list_source_functions
AppendSourceFunctions(t) ==
    /\ At(t, "L43")
    /\ my_list_source_functions' = set_entry(Top(t).methodcall, my_list_source_functions)
    /\ frames' = Goto(t, "L49")
    /\ UNCHANGED <<my_list_all_functions, my_info, env, history>>

\* lines 52-54 / 142, read half of  my_info[name]["timer"] += timer
TimerRead(t) ==
    /\ At(t, "L52r")
    /\ frames' = IF Top(t).name \in DOMAIN my_info
                 THEN SetTop(t, [Top(t) EXCEPT !.pc = "L52w",
                                    !.tmp = my_info[Top(t).name].timer])
                 ELSE Pop(t)
    /\ UNCHANGED <<registry, env, history>>

\* lines 52-54 / 142, write half
TimerWrite(t) ==
    /\ At(t, "L52w")
    /\ IF Top(t).name \in DOMAIN my_info
       THEN /\ my_info' = [my_info EXCEPT ![Top(t).name].timer =
                                              Top(t).tmp + Top(t).elapsed]
            /\ timed' = Bump(timed, Top(t).name)
            /\ frames' = Goto(t, "L57")
       ELSE /\ my_info' = my_info
            /\ timed' = timed
            /\ frames' = Pop(t)
    /\ UNCHANGED <<my_list_all_functions, my_list_source_functions, env,
                   invoked, returned, raised, recursed>>

\* mutant of CheckActive: the entry is kept while an outer invocation of the
\* same function is still running
CheckActiveKeepsWhileOuter(t) ==
    /\ At(t, "L57")
    /\ frames' = IF /\ exist_entry(Top(t).methodcall, my_list_source_functions)
                    /\ \A i \in 1..(Len(frames[t]) - 1) : frames[t][i].name # Top(t).name
                 THEN Goto(t, "L60") ELSE Goto(t, "L65")
    /\ UNCHANGED <<registry, env, history>>

\* lines 57-59: the exists check on my_list_source_functions
CheckActive(t) ==
    /\ At(t, "L57")
    /\ frames' = IF exist_entry(Top(t).methodcall, my_list_source_functions)
                 THEN Goto(t, "L60") ELSE Goto(t, "L65")
    /\ UNCHANGED <<registry, env, history>>

\* lines 60-63 / 129: my_list.remove(entry); ValueError when it is absent
DeleteActive(t) ==
    /\ At(t, "L60")
    /\ IF exist_entry(Top(t).methodcall, my_list_source_functions)
       THEN /\ my_list_source_functions' =
                   delete_entry(Top(t).methodcall, my_list_source_functions)
            /\ frames' = Goto(t, "L65")
       ELSE /\ my_list_source_functions' = my_list_source_functions
            /\ frames' = Pop(t)
    /\ UNCHANGED <<my_list_all_functions, my_info, env, history>>

\* line 65: return result
WrapperReturn(t) ==
    /\ At(t, "L65")
    /\ frames' = Pop(t)
    /\ returned' = Bump(returned, Top(t).name)
    /\ UNCHANGED <<registry, env, invoked, raised, timed, recursed>>

WrapperStep(t) ==
    \/ CheckRegistered(t)
    \/ CallcounterRead(t)
    \/ CallcounterWrite(t)
    \/ CreateInfo(t)
    \/ SetSourceFunctions(t)
    \/ AppendAllFunctions(t)
    \/ AppendSourceFunctions(t)
    \/ TimerRead(t)
    \/ TimerWrite(t)
    \/ CheckActive(t)
    \/ DeleteActive(t)
    \/ WrapperReturn(t)

\* ------------------------------------------- the wrapped function, line 49
\* A decorated function is called, from the top level of the thread or from
\* the body of the decorated function that is executing (line 19).
Invoke(t, callee, funcs, maxCalls, maxDepth) ==
    /\ callee \in funcs
    /\ IF frames[t] = <<>> THEN TRUE ELSE Top(t).pc = "L49"
    /\ Len(frames[t]) < maxDepth
    /\ Started < maxCalls
    /\ frames' = [frames EXCEPT ![t] = Append(@, Frame(callee, 0))]
    /\ invoked' = Bump(invoked, callee)
    /\ recursed' = IF InFlight(t, callee) THEN recursed \cup {callee} ELSE recursed
    /\ UNCHANGED <<registry, env, returned, raised, timed>>

\* lines 49-51: func returns after `elapsed` time units
BodyReturn(t, elapsed) ==
    /\ At(t, "L49")
    /\ frames' = SetTop(t, [Top(t) EXCEPT !.pc = "L52r", !.elapsed = elapsed])
    /\ UNCHANGED <<registry, env, history>>

\* line 49: func raises; nothing catches it in the wrapper, so the
\* invocation ends here and the failure reaches the caller
BodyRaise(t) ==
    /\ At(t, "L49")
    /\ frames' = Pop(t)
    /\ raised' = Bump(raised, Top(t).name)
    /\ UNCHANGED <<registry, env, invoked, returned, timed, recursed>>

\* ------------------------------------- test/test_store_funcs.py, the bodies
\* test_store_calls, line 7: self.sum_recursive(1, 1); the model lets the
\* second argument b range over 0..MaxK (test_b) and leaves out a, which
\* only travels to the result.
TestStart ==
    /\ test_b # NoTest
    /\ frames[1] = <<>>
    /\ Started = 0
    /\ frames' = [frames EXCEPT ![1] = Append(@, Frame(SumRecursive, test_b))]
    /\ invoked' = Bump(invoked, SumRecursive)
    /\ UNCHANGED <<registry, env, returned, raised, timed, recursed>>

\* sum_recursive, lines 15 and 18: self.print_value(...)
TestPrintValue ==
    /\ At(1, "L49")
    /\ Top(1).name = SumRecursive
    /\ Top(1).bpc = 0
    /\ frames' = [frames EXCEPT ![1] =
                      Append([@ EXCEPT ![Len(@)].bpc = 1], Frame(PrintValue, 0))]
    /\ invoked' = Bump(invoked, PrintValue)
    /\ UNCHANGED <<registry, env, returned, raised, timed, recursed>>

\* sum_recursive, line 16: return self.sum_recursive(a, b) after b -= 1
TestRecurse ==
    /\ At(1, "L49")
    /\ Top(1).name = SumRecursive
    /\ Top(1).bpc = 1
    /\ Top(1).b > 0
    /\ frames' = [frames EXCEPT ![1] =
                      Append([@ EXCEPT ![Len(@)].bpc = 2],
                             Frame(SumRecursive, Top(1).b - 1))]
    /\ invoked' = Bump(invoked, SumRecursive)
    /\ recursed' = recursed \cup {SumRecursive}
    /\ UNCHANGED <<registry, env, returned, raised, timed>>

\* sum_recursive lines 16 and 19, print_value line 23: the body returns
TestBodyReturn(elapsed) ==
    /\ At(1, "L49")
    /\ \/ Top(1).name = PrintValue
       \/ Top(1).name = SumRecursive /\ Top(1).b > 0 /\ Top(1).bpc = 2
       \/ Top(1).name = SumRecursive /\ Top(1).b = 0 /\ Top(1).bpc = 1
    /\ frames' = SetTop(1, [Top(1) EXCEPT !.pc = "L52r", !.elapsed = elapsed])
    /\ UNCHANGED <<registry, env, history>>

\* ------------------------------------ MethodChart.make_graphviz_chart
\* line 208: the pydot.Node made for the record at position i of
\* my_list_all_functions
NodeHandle(i) == "node" \o ToString(i)

\* methodcall.node = ... changes the record object itself: every reference
\* to it (active stack, source lists) shows the new node
Rebind(my_list, old, new) ==
    [k \in 1..Len(my_list) |-> IF my_list[k] = old THEN new ELSE my_list[k]]

RebindInfo(info, old, new) ==
    [n \in DOMAIN info |->
        [info[n] EXCEPT !.source_functions = Rebind(@, old, new)]]

\* lines 194-231, from position i on: give the record its node, then check
\* the node of each of its sources (lines 219-231)
RECURSIVE RenderFrom(_, _, _, _)
RenderFrom(i, all, active, info) ==
    IF i > Len(all)
    THEN [all |-> all, active |-> active, info |-> info, result |-> "ok"]
    ELSE LET old == all[i]
             new == [old EXCEPT !.node = NodeHandle(i)]
             all2 == [all EXCEPT ![i] = new]
             active2 == Rebind(active, old, new)
             info2 == RebindInfo(info, old, new)
             sources == info2[old.name].source_functions
         IN  IF \E k \in 1..Len(sources) : sources[k].node = None
             THEN [all |-> all2, active |-> active2, info |-> info2,
                   result |-> "ValueError"]
             ELSE RenderFrom(i + 1, all2, active2, info2)

\* make_graphviz_chart, called between decorated calls; lines 183-186 read
\* my_info of every listed name first (KeyError when one is missing)
Render ==
    /\ Idle
    /\ IF \E i \in 1..Len(my_list_all_functions) :
              my_list_all_functions[i].name \notin DOMAIN my_info
       THEN /\ render_result' = "KeyError"
            /\ UNCHANGED registry
       ELSE LET r == RenderFrom(1, my_list_all_functions,
                                my_list_source_functions, my_info)
            IN  /\ my_list_all_functions' = r.all
                /\ my_list_source_functions' = r.active
                /\ my_info' = r.info
                /\ render_result' = r.result
    /\ UNCHANGED <<frames, test_b, cleared, singleton, history>>

\* ------------------------------------ SingletonMetaForCallGraph.__call__
\* number of SingletonForCallGraph() calls in the wrapper statement at pc
Accesses(pc) ==
    CASE pc \in {"L28", "L35", "L40", "L43", "L57", "L60"} -> 2
      [] pc \in {"L31r", "L52r"} -> 1
      [] OTHER -> 0

\* how many of them thread t has made for the statement it is at
AccessesDone(t) ==
    IF granted[t].depth = Len(frames[t]) /\ granted[t].pc = Top(t).pc
    THEN granted[t].n ELSE 0

NeedsAccess(t) == frames[t] # <<>> /\ AccessesDone(t) < Accesses(Top(t).pc)

\* mutant of SingletonAcquire: __call__ does not wait for the lock
SingletonAcquireNoLock(t) ==
    /\ spc[t] = "idle"
    /\ NeedsAccess(t)
    /\ lock' = t
    /\ spc' = [spc EXCEPT ![t] = "L86"]
    /\ UNCHANGED <<registry, frames, test_b, render_result, cleared, history,
                   instances, constructed, granted, got>>

\* line 84: with cls._lock (enter); blocks while another thread holds it
SingletonAcquire(t) ==
    /\ spc[t] = "idle"
    /\ NeedsAccess(t)
    /\ lock = 0
    /\ lock' = t
    /\ spc' = [spc EXCEPT ![t] = "L86"]
    /\ UNCHANGED <<registry, frames, test_b, render_result, cleared, history,
                   instances, constructed, granted, got>>

\* line 86: if cls not in cls._instances
SingletonCheck(t) ==
    /\ spc[t] = "L86"
    /\ spc' = [spc EXCEPT ![t] = IF instances = 0 THEN "L87" ELSE "exit"]
    /\ UNCHANGED <<registry, frames, test_b, render_result, cleared, history,
                   lock, instances, constructed, granted, got>>

\* lines 87-88 and 107-111: a new registry object, with empty collections,
\* is made and stored
SingletonConstruct(t) ==
    /\ spc[t] = "L87"
    /\ constructed' = constructed + 1
    /\ instances' = constructed + 1
    /\ my_list_all_functions' = <<>>
    /\ my_list_source_functions' = <<>>
    /\ my_info' = <<>>
    /\ spc' = [spc EXCEPT ![t] = "exit"]
    /\ UNCHANGED <<frames, test_b, render_result, cleared, history,
                   lock, granted, got>>

\* line 84: with cls._lock (exit)
SingletonRelease(t) ==
    /\ spc[t] = "exit"
    /\ lock' = IF lock = t THEN 0 ELSE lock
    /\ spc' = [spc EXCEPT ![t] = "L89"]
    /\ UNCHANGED <<registry, frames, test_b, render_result, cleared, history,
                   instances, constructed, granted, got>>

\* line 89: return cls._instances[cls]
SingletonReturn(t) ==
    /\ spc[t] = "L89"
    /\ got' = [got EXCEPT ![t] = @ \cup {instances}]
    /\ granted' = [granted EXCEPT ![t] =
                      [depth |-> Len(frames[t]), pc |-> Top(t).pc,
                       n |-> AccessesDone(t) + 1]]
    /\ spc' = [spc EXCEPT ![t] = "idle"]
    /\ UNCHANGED <<registry, frames, test_b, render_result, cleared, history,
                   lock, instances, constructed>>

\* a wrapper statement runs once its SingletonForCallGraph() calls returned
GrantedWrapperStep(t) ==
    /\ spc[t] = "idle"
    /\ frames[t] # <<>>
    /\ AccessesDone(t) = Accesses(Top(t).pc)
    /\ WrapperStep(t)

\* line 49: func never returns
Hang(t) ==
    /\ At(t, "L49")
    /\ frames' = SetTop(t, [Top(t) EXCEPT !.pc = "hung", !.tmp = Started])
    /\ UNCHANGED <<registry, env, history>>

Hung(t) == At(t, "hung")

\* the chart is drawn for the first time
FirstRender == render_result = "none" /\ Render

\* -------------------------------------------- SingletonForCallGraph.clear
\* lines 131-134, applied to one collection by the code that runs between
\* decorated calls or inside a decorated function's body
CanRunUserCode(t) == IF frames[t] = <<>> THEN TRUE ELSE Top(t).pc = "L49"

\* mutant of ClearAllFunctions: clear() empties my_info along with the list
ClearAllFunctionsAndInfo(t) ==
    /\ CanRunUserCode(t)
    /\ my_list_all_functions' = <<>>
    /\ my_info' = <<>>
    /\ cleared' = cleared \cup {"my_list_all_functions"}
    /\ UNCHANGED <<my_list_source_functions, frames, test_b,
                   render_result, singleton, history>>

ClearAllFunctions(t) ==
    /\ CanRunUserCode(t)
    /\ my_list_all_functions' = <<>>
    /\ cleared' = cleared \cup {"my_list_all_functions"}
    /\ UNCHANGED <<my_list_source_functions, my_info, frames, test_b,
                   render_result, singleton, history>>

ClearSourceFunctions(t) ==
    /\ CanRunUserCode(t)
    /\ my_list_source_functions' = <<>>
    /\ cleared' = cleared \cup {"my_list_source_functions"}
    /\ UNCHANGED <<my_list_all_functions, my_info, frames, test_b,
                   render_result, singleton, history>>

ClearInfo(t) ==
    /\ CanRunUserCode(t)
    /\ my_info' = <<>>
    /\ cleared' = cleared \cup {"my_info"}
    /\ UNCHANGED <<my_list_all_functions, my_list_source_functions, frames,
                   test_b, render_result, singleton, history>>

\* ------------------------------------------------------ specifications
\* one thread, arbitrary decorated calls
Next ==
    \/ \E f \in Funcs : Invoke(1, f, Funcs, MaxCalls, MaxDepth)
    \/ \E e \in 1..MaxElapsed : BodyReturn(1, e)
    \/ BodyRaise(1)
    \/ WrapperStep(1)

Spec == Init /\ [][Next]_vars

\* two threads, arbitrary decorated calls
NextMT ==
    \E t \in Threads :
        \/ \E f \in FuncsMT : Invoke(t, f, FuncsMT, MaxCallsMT, MaxDepthMT)
        \/ BodyReturn(t, 1)
        \/ BodyRaise(t)
        \/ WrapperStep(t)

SpecMT == Init /\ [][NextMT]_vars

\* one thread running test_store_calls
NextTest ==
    \/ TestStart
    \/ TestPrintValue
    \/ TestRecurse
    \/ \E e \in 1..MaxElapsed : TestBodyReturn(e)
    \/ WrapperStep(1)

SpecTest == InitTest /\ [][NextTest]_vars

\* one thread, decorated calls and charts drawn between them
NextRender ==
    \/ \E f \in Funcs : Invoke(1, f, Funcs, MaxCallsRender, MaxDepth)
    \/ BodyReturn(1, 1)
    \/ WrapperStep(1)
    \/ Render

SpecRender == Init /\ [][NextRender]_vars

\* two threads of decorated calls, and the first chart drawn of them
NextMTRender ==
    \/ \E t \in Threads :
          \/ \E f \in FuncsMT : Invoke(t, f, FuncsMT, MaxCallsMT, MaxDepthMT)
          \/ BodyReturn(t, 1)
          \/ WrapperStep(t)
    \/ FirstRender

SpecMTRender == Init /\ [][NextMTRender]_vars

\* two threads of decorated calls and clear() of single collections
NextClear ==
    \E t \in Threads :
        \/ \E f \in FuncsMT : Invoke(t, f, FuncsMT, MaxCallsClear, MaxDepthClear)
        \/ BodyReturn(t, 1)
        \/ WrapperStep(t)
        \/ ClearAllFunctions(t)
        \/ ClearSourceFunctions(t)
        \/ ClearInfo(t)

SpecClear == Init /\ [][NextClear]_vars

\* two threads of decorated calls with every SingletonForCallGraph() call
\* spelled out, starting before the registry exists; thread 1 may hang in a
\* wrapped function
SingletonThreadStep(t) ==
    \/ Invoke(t, SumRecursive, {SumRecursive}, MaxCallsSingleton, MaxDepthSingleton)
    \/ BodyReturn(t, 1)
    \/ SingletonAcquire(t)
    \/ SingletonCheck(t)
    \/ SingletonConstruct(t)
    \/ SingletonRelease(t)
    \/ SingletonReturn(t)
    \/ GrantedWrapperStep(t)

NextSingleton ==
    \/ \E t \in Threads : SingletonThreadStep(t)
    \/ Hang(1)

SpecSingleton == InitSingleton /\ [][NextSingleton]_vars

\* the scheduler lets every thread that can run take its steps
SpecSingletonFair ==
    SpecSingleton /\ \A t \in Threads : WF_vars(SingletonThreadStep(t))

\* ===================================================== properties
Count(name, my_list) == Cardinality({i \in 1..Len(my_list) : my_list[i].name = name})

NamesOf(my_list) == {my_list[i].name : i \in 1..Len(my_list)}

\* the first invocation of name is running and has not yet reached `pcs`' end
FirstInvocationAt(name, pcs) ==
    /\ invoked[name] = 1
    /\ frames[1] # <<>>
    /\ Top(1).name = name
    /\ Top(1).pc \in pcs

\* an invocation of name has started and not yet counted itself
CountPending(name) ==
    IF frames[1] # <<>> /\ Top(1).name = name
          /\ Top(1).pc \in {"L28", "L31r", "L31w", "L35"}
    THEN 1 ELSE 0

\* C1: in a single-threaded run all_functions holds exactly one entry for
\* every name invoked at least once (from the moment its first invocation
\* has appended it) and none for the others; the stats entry exists from the
\* first invocation's create on, and every invocation after the first only
\* counts: callcounter equals the number of invocations that have counted.
C1_OneEntryPerName ==
    \A n \in Funcs :
        /\ Count(n, my_list_all_functions) =
              IF invoked[n] > 0 /\ ~FirstInvocationAt(n, {"L28", "L35", "L152", "L40"})
              THEN 1 ELSE 0
        /\ n \in DOMAIN my_info <=>
              (invoked[n] > 0 /\ ~FirstInvocationAt(n, {"L28", "L35"}))
        /\ n \in DOMAIN my_info =>
              my_info[n].callcounter = invoked[n] - CountPending(n)

\* witness of C1: a name invoked three times, one of them in flight below
\* another registered function, and still one entry each
C1_Witness ==
    /\ invoked[SumRecursive] = 3
    /\ Len(frames[1]) = 2
    /\ Top(1).pc = "L49"
    /\ Len(my_list_all_functions) = 2
    /\ my_info[SumRecursive].callcounter = 3

\* C2: two threads invoking the same never-before-seen function leave one
\* entry for it in all_functions and callcounter 2, in every interleaving.
C2_AtomicRegistration ==
    \A n \in FuncsMT :
        /\ Count(n, my_list_all_functions) <= 1
        /\ (Idle /\ invoked[n] = 2 /\ returned[n] = 2) =>
              /\ Count(n, my_list_all_functions) = 1
              /\ my_info[n].callcounter = 2

\* the decorated function whose body called the invocation on top of the
\* stack of thread 1, as a source list
InnermostCaller ==
    IF Len(frames[1]) >= 2
    THEN <<frames[1][Len(frames[1]) - 1].methodcall>>
    ELSE <<>>

\* C3: when the first invocation of g has set its sources, they are [A] for
\* the decorated function A whose body made the call, and empty when the
\* call came from outside every decorated function.
C3_SourceIsCaller ==
    (frames[1] # <<>> /\ Top(1).pc = "L40") =>
        my_info[Top(1).name].source_functions = InnermostCaller

\* C4: a step that ends an invocation (the function returned or raised)
\* leaves the function's name absent from active_stack.
C4_AbsentAfterCall ==
    [][Len(frames'[1]) < Len(frames[1]) =>
          Top(1).name \notin NamesOf(my_list_source_functions')]_vars

\* C5: every finished invocation, returned or raised, has accumulated its
\* time exactly once.
C5_TimedWhenFinished ==
    frames[1] = <<>> =>
        \A n \in Funcs : timed[n] = returned[n] + raised[n]

\* C6: after sequential invocations of a function that all returned, its
\* callcounter is the number of completed invocations.
C6_CountIsCompleted ==
    \A n \in Funcs :
        (frames[1] = <<>> /\ returned[n] > 0 /\ raised[n] = 0) =>
            /\ n \in DOMAIN my_info
            /\ my_info[n].callcounter = returned[n]

\* witness of C6: three completed invocations, counted 3
C6_Witness ==
    /\ frames[1] = <<>>
    /\ returned["g"] = 3
    /\ raised["g"] = 0
    /\ my_info["g"].callcounter = 3

TestDone == frames[1] = <<>> /\ invoked[SumRecursive] > 0

\* C7: sum_recursive(a, b) recurses b times; when the test is over it is
\* registered once with callcounter b + 1, and so is print_value; for b = 1
\* all_functions is exactly [sum_recursive, print_value], both counted 2.
C7_RecursionRegisteredOnce ==
    TestDone =>
        /\ Count(SumRecursive, my_list_all_functions) = 1
        /\ my_info[SumRecursive].callcounter = test_b + 1
        /\ Count(PrintValue, my_list_all_functions) = 1
        /\ my_info[PrintValue].callcounter = test_b + 1
        /\ Len(my_list_all_functions) = 2
        /\ test_b = 1 =>
              /\ my_list_all_functions =
                     <<MethodCall(SumRecursive), MethodCall(PrintValue)>>
              /\ my_info[SumRecursive].callcounter = 2
              /\ my_info[PrintValue].callcounter = 2

\* witness of C7: sum_recursive(1, 1) has run to its end
C7_Witness ==
    /\ TestDone
    /\ test_b = 1
    /\ returned[SumRecursive] = 2
    /\ returned[PrintValue] = 2

\* C8: every name on active_stack and every name in a source_functions
\* list is a name of all_functions, in every interleaving of two threads.
C8_NamesRegistered ==
    /\ NamesOf(my_list_source_functions) \subseteq NamesOf(my_list_all_functions)
    /\ \A n \in DOMAIN my_info :
          NamesOf(my_info[n].source_functions) \subseteq NamesOf(my_list_all_functions)

\* witness of C8: both threads inside decorated functions, a name on the
\* active stack and a recorded source
C8_Witness ==
    /\ frames[1] # <<>>
    /\ frames[2] # <<>>
    /\ my_list_source_functions # <<>>
    /\ \E n \in DOMAIN my_info : my_info[n].source_functions # <<>>

\* create() is between storing the record (line 146) and the return of
\* set_source_functions (line 152)
Creating(name) == frames[1] # <<>> /\ Top(1).name = name /\ Top(1).pc = "L152"

\* C9: once create() has finished for a name, its source_functions never
\* change again.
C9_SourcesFrozen ==
    [][\A n \in DOMAIN my_info :
          ~Creating(n) =>
              /\ n \in DOMAIN my_info'
              /\ my_info'[n].source_functions = my_info[n].source_functions]_vars

\* witness of C9: a function first called from another one is running again,
\* this time called from the top level, and has counted that call
C9_Witness ==
    /\ Len(frames[1]) = 1
    /\ Top(1).pc = "L49"
    /\ my_info[Top(1).name].source_functions # <<>>
    /\ my_info[Top(1).name].callcounter = 2

\* C10: a function that has never been called recursively and has an
\* invocation whose body is running is on active_stack.
C10_InFlightOnStack ==
    \A i \in 1..Len(frames[1]) :
        (frames[1][i].pc = "L49" /\ frames[1][i].name \notin recursed)
        => frames[1][i].name \in NamesOf(my_list_source_functions)

\* C11: the removal at the end of an invocation never raises: a thread
\* about to call my_list.remove(entry) finds the entry in the list.
C11_RemovalNeverRaises ==
    \A t \in Threads :
        At(t, "L60") => exist_entry(Top(t).methodcall, my_list_source_functions)

\* C12: when every invocation of a function registered once has returned,
\* callcounter has counted each of them and timer holds the sum of their
\* elapsed times (1 each in SpecMT): no update is lost.
C12_NoLostUpdate ==
    \A n \in FuncsMT :
        (Idle /\ Count(n, my_list_all_functions) = 1 /\ returned[n] = invoked[n]) =>
            /\ my_info[n].callcounter = invoked[n]
            /\ my_info[n].timer = returned[n]

\* C16: single-threaded, active_stack holds at most one entry per name.
C16_NoDuplicateOnStack ==
    \A n \in Funcs : Count(n, my_list_source_functions) <= 1

\* witness of C16: a function is running inside itself and is on the active
\* stack once
C16_Witness ==
    /\ Len(frames[1]) = 2
    /\ frames[1][1].name = frames[1][2].name
    /\ frames[1][2].pc = "L49"
    /\ Count(frames[1][1].name, my_list_source_functions) = 1

\* the invocation of sum_recursive on top of the stack has made its
\* recursive call (line 16), and that call has ended
InnerReturned ==
    /\ frames[1] # <<>>
    /\ Top(1).name = SumRecursive
    /\ Top(1).bpc = 2

\* C17: once a recursive call of sum_recursive has returned, the name is off
\* active_stack although the calling invocations are still running, and the
\* exit of a calling invocation finds it absent and removes nothing.
C17_RecursionCollapses ==
    InnerReturned =>
        /\ SumRecursive \notin NamesOf(my_list_source_functions)
        /\ Top(1).pc # "L60"

\* witness of C17: at depth 2 of 4 the recursive call has returned, the outer
\* invocation is still running, and this one is leaving without a removal
C17_Witness ==
    /\ InnerReturned
    /\ test_b = 2
    /\ Len(frames[1]) = 2
    /\ Top(1).pc = "L65"
    /\ frames[1][1].pc = "L49"

\* C14: records are equal when their names are, whatever their node: a
\* function that is in all_functions is recognised by the next invocation
\* also after a chart gave its record a node, so it is listed once.
C14_EqualByName ==
    /\ \A i \in 1..Len(my_list_all_functions) :
          (frames[1] # <<>> /\ Top(1).name = my_list_all_functions[i].name) =>
              MethodCallEq(my_list_all_functions[i], MethodCall(Top(1).name))
    /\ \A n \in Funcs : Count(n, my_list_all_functions) <= 1

\* C19: every source record of a listed function sits earlier in
\* all_functions, so drawing the chart of a registry reached by decorated
\* calls never raises the consistency ValueError.
C19_RenderNeverRaises == render_result # "ValueError"

\* every listed name, and every name whose invocation is past the
\* registration of lines 28-35, has its entry in my_info
StatsPresent ==
    /\ NamesOf(my_list_all_functions) \subseteq DOMAIN my_info
    /\ \A t \in Threads : \A i \in 1..Len(frames[t]) :
          frames[t][i].pc \notin {"L28", "L35"} => frames[t][i].name \in DOMAIN my_info

\* C18 as stated: also when clear is applied to a single collection, my_info
\* included, every name listed or timed has its stats entry.
C18_StatsPresentWithClear == StatsPresent

\* C18 amended: as long as clear has not been applied to my_info (it may
\* have been applied to all_functions or to the active stack), every name
\* listed or timed has its stats entry.
C18_StatsPresentUnlessInfoCleared ==
    "my_info" \notin cleared => StatsPresent

\* witness of C18: all_functions was cleared, a function registered a second
\* time and is about to be timed
C18_Witness ==
    /\ cleared = {"my_list_all_functions"}
    /\ \E t \in Threads :
          /\ At(t, "L52r")
          /\ invoked[Top(t).name] = 2
          /\ Count(Top(t).name, my_list_all_functions) = 1

\* C13: however the first SingletonForCallGraph() calls interleave, one
\* registry object is constructed and every call returns it.
C13_OneInstance ==
    /\ constructed <= 1
    /\ \A t \in Threads : got[t] \subseteq {1}

\* witness of C13: thread 1 is constructing the registry inside the lock
\* while thread 2 has started its own first call and waits for the lock
C13_Witness ==
    /\ spc[1] = "L87"
    /\ lock = 1
    /\ At(2, "L28")
    /\ spc[2] = "idle"
    /\ got[2] = {}

\* C15: while the wrapped function of thread 1 hangs, an invocation of
\* thread 2 runs to its end.
C15_OthersComplete ==
    (Hung(1) /\ frames[2] # <<>>) ~> (frames[2] = <<>>)

\* witness of C15: an invocation that started after thread 1 hung is over
C15_Witness ==
    /\ Hung(1)
    /\ Started > Top(1).tmp
    /\ frames[2] = <<>>
    /\ returned[SumRecursive] = 1

=============================================================================



